---- MODULE Spec2Model ----
(***************************************************************************)
(* Model of the Lychee global keybinding manager (lib/keybindings.ts,      *)
(* class KeyBindingManager): the two binding indices, the persisted        *)
(* override record, the listener lists and the keydown dispatcher.         *)
(*                                                                         *)
(* A JavaScript Map is a function whose DOMAIN is the set of keys present. *)
(* An optional property that is absent or undefined is a field that is not *)
(* in the DOMAIN of the record.  The description of a binding is copied    *)
(* unchanged by every operation and is left out.                           *)
(***************************************************************************)
EXTENDS Integers, Sequences, FiniteSets, TLC

(***************************************************************************)
(* Static configuration                                                    *)
(***************************************************************************)

\* A default table in which REDO has lost its shift flag.
defaultKeybindings_redoWithoutShift ==
  << [key |-> "a", ctrl |-> TRUE, action |-> "CREATE_NOTE"],
     [key |-> "q", ctrl |-> TRUE, action |-> "RETURN_TO_VIEW"],
     [key |-> "h", ctrl |-> TRUE, action |-> "RETURN_TO_NOTES"],
     [key |-> "b", ctrl |-> TRUE, action |-> "OPEN_SETTINGS"],
     [key |-> "x", ctrl |-> TRUE, action |-> "OPEN_EXPORT"],
     [key |-> "z", ctrl |-> TRUE, action |-> "UNDO"],
     [key |-> "z", ctrl |-> TRUE, action |-> "REDO"],
     [key |-> "t", ctrl |-> TRUE, shift |-> TRUE, action |-> "OPEN_THEME_DROPDOWN"],
     [key |-> "s", ctrl |-> TRUE, action |-> "OPEN_SPOTLIGHT_SEARCH"],
     [key |-> "t", ctrl |-> TRUE, action |-> "OPEN_TAG_SEARCH"] >>

defaultKeybindings ==
  << [key |-> "a", ctrl |-> TRUE, action |-> "CREATE_NOTE"],
     [key |-> "q", ctrl |-> TRUE, action |-> "RETURN_TO_VIEW"],
     [key |-> "h", ctrl |-> TRUE, action |-> "RETURN_TO_NOTES"],
     [key |-> "b", ctrl |-> TRUE, action |-> "OPEN_SETTINGS"],
     [key |-> "x", ctrl |-> TRUE, action |-> "OPEN_EXPORT"],
     [key |-> "z", ctrl |-> TRUE, action |-> "UNDO"],
     [key |-> "z", ctrl |-> TRUE, shift |-> TRUE, action |-> "REDO"],
     [key |-> "t", ctrl |-> TRUE, shift |-> TRUE, action |-> "OPEN_THEME_DROPDOWN"],
     [key |-> "s", ctrl |-> TRUE, action |-> "OPEN_SPOTLIGHT_SEARCH"],
     [key |-> "t", ctrl |-> TRUE, action |-> "OPEN_TAG_SEARCH"] >>

KeyBindingAction ==
  { "CREATE_NOTE", "RETURN_TO_VIEW", "RETURN_TO_NOTES", "OPEN_SETTINGS",
    "OPEN_EXPORT", "UNDO", "REDO", "OPEN_THEME_DROPDOWN",
    "OPEN_SPOTLIGHT_SEARCH", "OPEN_TAG_SEARCH" }

\* An allow-list that also names UNDO.
globalShortcuts_withUndo ==
  { "OPEN_SPOTLIGHT_SEARCH", "OPEN_TAG_SEARCH", "OPEN_THEME_DROPDOWN",
    "OPEN_SETTINGS", "OPEN_EXPORT", "UNDO" }

globalShortcuts ==
  { "OPEN_SPOTLIGHT_SEARCH", "OPEN_TAG_SEARCH", "OPEN_THEME_DROPDOWN",
    "OPEN_SETTINGS", "OPEN_EXPORT" }

ModifierNames == << "ctrl", "shift", "alt" >>

(***************************************************************************)
(* JavaScript helpers                                                      *)
(***************************************************************************)

\* String.prototype.toLowerCase on the key symbols the model uses.
UpperToLower ==
  ("A" :> "a") @@ ("K" :> "k") @@ ("Q" :> "q") @@ ("Z" :> "z") @@ ("Escape" :> "escape")

toLowerCase(s) == IF s \in DOMAIN UpperToLower THEN UpperToLower[s] ELSE s

LowerToUpper ==
  ("a" :> "A") @@ ("b" :> "B") @@ ("h" :> "H") @@ ("k" :> "K") @@ ("q" :> "Q")
    @@ ("s" :> "S") @@ ("t" :> "T") @@ ("x" :> "X") @@ ("z" :> "Z")
    @@ ("escape" :> "ESCAPE")

toUpperCase(s) == IF s \in DOMAIN LowerToUpper THEN LowerToUpper[s] ELSE s

\* Truthiness of an optional boolean property (if (b.ctrl), !!b.ctrl).
Truthy(b, f) == f \in DOMAIN b /\ b[f] = TRUE

\* Map.prototype.set / delete / has.
MapSet(m, k, v) == (k :> v) @@ m

MapDelete(m, k) == [x \in (DOMAIN m) \ {k} |-> m[x]]

MapHas(m, k) == k \in DOMAIN m

\* Array.prototype.join.
\* The iteration order of the keys of a Map after set(k, ...): a new key goes
\* to the end, a key the Map has keeps its place.
KeyOrderAfterSet(order, k) ==
  IF \E i \in 1..Len(order) : order[i] = k THEN order ELSE Append(order, k)

RECURSIVE Join(_, _)
Join(parts, sep) ==
  IF Len(parts) = 0 THEN ""
  ELSE IF Len(parts) = 1 THEN parts[1]
  ELSE parts[1] \o sep \o Join(Tail(parts), sep)

(***************************************************************************)
(* KeyBindingManager: pure parts                                           *)
(***************************************************************************)

\* getBindingKey with '+' between the modifiers and the key as well.
getBindingKey_plusSeparator(binding) ==
  LET modifiers == SelectSeq(ModifierNames, LAMBDA f : Truthy(binding, f))
  IN  Join(modifiers, "+") \o "+" \o binding.key

\* getBindingKey: the modifiers that are set, in the order ctrl, shift, alt,
\* joined by '+', then '-', then the key as it is stored (not lowercased).
getBindingKey(binding) ==
  LET modifiers == SelectSeq(ModifierNames, LAMBDA f : Truthy(binding, f))
  IN  Join(modifiers, "+") \o "-" \o binding.key

\* applyBinding that leaves the old entry of the action in the combo index.
applyBinding_keepsOldEntry(m, action, binding) ==
  [m EXCEPT !.bindings = MapSet(m.bindings, getBindingKey(binding), binding),
            !.actionToBinding = MapSet(m.actionToBinding, action, binding)]

\* applyBinding that, when the new combo has an owner, drops the owner from
\* the action index.
applyBinding_evictsOwner(m, action, binding) ==
  LET key == getBindingKey(binding)
      kept == IF MapHas(m.bindings, key) /\ m.bindings[key].action # action
              THEN MapDelete(m.actionToBinding, m.bindings[key].action)
              ELSE m.actionToBinding
      removed == IF MapHas(m.actionToBinding, action)
                 THEN MapDelete(m.bindings, getBindingKey(m.actionToBinding[action]))
                 ELSE m.bindings
  IN  [m EXCEPT !.bindings = MapSet(removed, key, binding),
                !.actionToBinding = MapSet(kept, action, binding)]

\* applyBinding that deletes the entry of the action from the action index
\* before it sets it, which moves the action to the end of the iteration.
applyBinding_reinserts(m, action, binding) ==
  LET removed == IF MapHas(m.actionToBinding, action)
                 THEN MapDelete(m.bindings, getBindingKey(m.actionToBinding[action]))
                 ELSE m.bindings
      Other(a) == a # action
  IN  [m EXCEPT !.bindings = MapSet(removed, getBindingKey(binding), binding),
                !.actionToBinding = MapSet(m.actionToBinding, action, binding),
                !.order = Append(SelectSeq(m.order, Other), action)]

\* applyBinding that takes the binding applied as the new default of the action.
applyBinding_rebasesDefault(m, action, binding) ==
  LET removed == IF MapHas(m.actionToBinding, action)
                 THEN MapDelete(m.bindings, getBindingKey(m.actionToBinding[action]))
                 ELSE m.bindings
  IN  [m EXCEPT !.bindings = MapSet(removed, getBindingKey(binding), binding),
                !.actionToBinding = MapSet(m.actionToBinding, action, binding),
                !.defaultByAction = MapSet(m.defaultByAction, action, binding),
                !.order = KeyOrderAfterSet(m.order, action)]

\* applyBinding on a manager record m = [bindings, actionToBinding, ...].
applyBinding(m, action, binding) ==
  LET removed == IF MapHas(m.actionToBinding, action)
                 THEN MapDelete(m.bindings, getBindingKey(m.actionToBinding[action]))
                 ELSE m.bindings
  IN  [m EXCEPT !.bindings = MapSet(removed, getBindingKey(binding), binding),
                !.actionToBinding = MapSet(m.actionToBinding, action, binding),
                !.order = KeyOrderAfterSet(m.order, action)]

\* loadDefaultBindings: defaultKeybindings.forEach from entry i on.
RECURSIVE loadDefaultBindingsFrom(_, _)
loadDefaultBindingsFrom(m, i) ==
  IF i > Len(defaultKeybindings) THEN m
  ELSE LET binding == defaultKeybindings[i]
           key == getBindingKey(binding)
       IN  loadDefaultBindingsFrom(
             [m EXCEPT !.bindings = MapSet(m.bindings, key, binding),
                       !.actionToBinding = MapSet(m.actionToBinding, binding.action, binding),
                       !.defaultByAction = MapSet(m.defaultByAction, binding.action, binding),
                       !.order = KeyOrderAfterSet(m.order, binding.action)],
             i + 1)

EmptyMap == [x \in {} |-> x]

\* localStorage.getItem(storageKey): no item, an item that JSON.parse
\* rejects, or an object given as its entries <<name, value>> in the order
\* Object.entries lists them.
NoItem == [kind |-> "none"]

Unparsable == [kind |-> "unparsable"]

Json(entries) == [kind |-> "json", entries |-> entries]

JsonNull == [null |-> TRUE]

\* A manager whose fields are the field initialisers of the class, over a
\* localStorage holding raw.  applied is a history field: the actions an
\* override of the persisted record has been applied to.
NewManager(raw) ==
  [bindings |-> EmptyMap, actionToBinding |-> EmptyMap,
   defaultByAction |-> EmptyMap, order |-> << >>, storage |-> raw, applied |-> {}]

loadDefaultBindings(m) == loadDefaultBindingsFrom(m, 1)

\* The order in which actionToBinding.forEach and defaultByAction.forEach
\* visit the actions: insertion order, which is the order of the defaults.
ActionOrder == [i \in 1..Len(defaultKeybindings) |-> defaultKeybindings[i].action]

ComboFields == {"key", "ctrl", "shift", "alt"}

\* The object literal of loadOverridesFromStorage: { ...current, f: ov.f ?? current.f }.
\* A property of ov that is absent leaves the property of current.
mergeOverride(current, ov) ==
  LET given == (DOMAIN ov) \cap ComboFields
  IN  [f \in (DOMAIN current) \cup given |->
         IF f \in given THEN ov[f] ELSE current[f]]

\* Object.entries(overrides).forEach from entry i on.  Reading ov.key of a
\* null value throws; the exception leaves forEach and is swallowed by the
\* catch, so the entries applied before it stay applied.
RECURSIVE applyOverridesFrom(_, _, _)
applyOverridesFrom(m, entries, i) ==
  IF i > Len(entries) THEN m
  ELSE LET act == entries[i][1]
           ov == entries[i][2]
       IN  IF ~MapHas(m.actionToBinding, act)
           THEN applyOverridesFrom(m, entries, i + 1)
           ELSE IF ov = JsonNull
           THEN m
           ELSE LET updated == mergeOverride(m.actionToBinding[act], ov)
                    n == applyBinding(m, act, updated)
                IN  applyOverridesFrom([n EXCEPT !.applied = @ \cup {act}],
                                       entries, i + 1)

\* loadOverridesFromStorage without its try/catch: the error of JSON.parse
\* leaves the constructor and no registry is built.
loadOverridesFromStorage_unguarded(m) ==
  IF m.storage.kind = "json" THEN applyOverridesFrom(m, m.storage.entries, 1)
  ELSE IF m.storage.kind = "unparsable"
       THEN [m EXCEPT !.bindings = EmptyMap, !.actionToBinding = EmptyMap]
       ELSE m

\* loadOverridesFromStorage: nothing is read from a missing item (if (!raw)
\* return), and the error JSON.parse raises is swallowed by the catch.
loadOverridesFromStorage(m) ==
  IF m.storage.kind = "json" THEN applyOverridesFrom(m, m.storage.entries, 1)
  ELSE m

\* The test of saveOverridesToStorage: the binding differs from its default.
differsFromDefault(b, def) ==
  \/ b.key # def.key
  \/ Truthy(b, "ctrl") # Truthy(def, "ctrl")
  \/ Truthy(b, "shift") # Truthy(def, "shift")
  \/ Truthy(b, "alt") # Truthy(def, "alt")

\* The override written for a binding, as JSON.stringify keeps it: key,
\* ctrl, shift, alt, without the properties that are undefined.
overrideOf(b) == [f \in (DOMAIN b) \cap ComboFields |-> b[f]]

\* actionToBinding.forEach from position i of the insertion order on.
RECURSIVE overridesFrom(_, _)
overridesFrom(m, i) ==
  IF i > Len(ActionOrder) THEN << >>
  ELSE LET action == ActionOrder[i]
       IN  IF /\ MapHas(m.actionToBinding, action)
              /\ MapHas(m.defaultByAction, action)
              /\ differsFromDefault(m.actionToBinding[action], m.defaultByAction[action])
           THEN << <<action, overrideOf(m.actionToBinding[action])>> >>
                  \o overridesFrom(m, i + 1)
           ELSE overridesFrom(m, i + 1)

\* saveOverridesToStorage patching the stored record: the overrides found are
\* added to it and an entry is never taken out.
saveOverridesToStorage_patches(m) ==
  LET fresh == overridesFrom(m, 1)
      old == IF m.storage.kind = "json" THEN m.storage.entries ELSE << >>
      Stale(e) == \A i \in 1..Len(fresh) : fresh[i][1] # e[1]
  IN  [m EXCEPT !.storage = Json(SelectSeq(old, Stale) \o fresh)]

saveOverridesToStorage(m) == [m EXCEPT !.storage = Json(overridesFrom(m, 1))]

\* constructor (the global listener is the KeyDown action below).
Construct(raw) == loadOverridesFromStorage(loadDefaultBindings(NewManager(raw)))

\* hasConflict with the comparison of the owner inverted.
hasConflict_ownerInverted(m, test, exceptAction) ==
  LET key == getBindingKey(test)
  IN  MapHas(m.bindings, key) /\ m.bindings[key].action = exceptAction

hasConflict(m, test, exceptAction) ==
  LET key == getBindingKey(test)
  IN  MapHas(m.bindings, key) /\ m.bindings[key].action # exceptAction

\* setBinding without the test for an action the registry does not know.
setBinding_unguarded(m, action, update) ==
  LET next == [key |-> toLowerCase(update.key),
               ctrl |-> Truthy(update, "ctrl"),
               shift |-> Truthy(update, "shift"),
               alt |-> Truthy(update, "alt"),
               action |-> action]
  IN  IF hasConflict(m, next, action) THEN [m |-> m, ok |-> FALSE]
      ELSE [m |-> saveOverridesToStorage(applyBinding(m, action, next)),
            ok |-> TRUE]

\* setBinding that writes the override to the store and leaves both indices
\* as they are until the next start.
setBinding_deferred(m, action, update) ==
  IF ~MapHas(m.actionToBinding, action) THEN [m |-> m, ok |-> FALSE]
  ELSE LET current == m.actionToBinding[action]
           next == [key |-> toLowerCase(update.key),
                    ctrl |-> Truthy(update, "ctrl"),
                    shift |-> Truthy(update, "shift"),
                    alt |-> Truthy(update, "alt"),
                    action |-> current.action]
       IN  IF hasConflict(m, next, action) THEN [m |-> m, ok |-> FALSE]
           ELSE [m |-> [m EXCEPT !.storage =
                          saveOverridesToStorage(applyBinding(m, action, next)).storage],
                 ok |-> TRUE]

\* setBinding: the manager afterwards and the value returned.
setBinding(m, action, update) ==
  IF ~MapHas(m.actionToBinding, action) THEN [m |-> m, ok |-> FALSE]
  ELSE LET current == m.actionToBinding[action]
           next == [key |-> toLowerCase(update.key),
                    ctrl |-> Truthy(update, "ctrl"),
                    shift |-> Truthy(update, "shift"),
                    alt |-> Truthy(update, "alt"),
                    action |-> current.action]
       IN  IF hasConflict(m, next, action) THEN [m |-> m, ok |-> FALSE]
           ELSE [m |-> saveOverridesToStorage(applyBinding(m, action, next)),
                 ok |-> TRUE]

\* resetBinding that does not save the overrides.
resetBinding_noSave(m, action) ==
  IF ~MapHas(m.defaultByAction, action) THEN m
  ELSE applyBinding(m, action, m.defaultByAction[action])

resetBinding(m, action) ==
  IF ~MapHas(m.defaultByAction, action) THEN m
  ELSE saveOverridesToStorage(applyBinding(m, action, m.defaultByAction[action]))

\* defaultByAction.forEach from position i of the insertion order on.
RECURSIVE resetFrom(_, _)
resetFrom(m, i) ==
  IF i > Len(ActionOrder) THEN m
  ELSE LET action == ActionOrder[i]
       IN  IF MapHas(m.defaultByAction, action)
           THEN resetFrom(applyBinding(m, action, m.defaultByAction[action]), i + 1)
           ELSE resetFrom(m, i + 1)

resetAllBindings(m) == saveOverridesToStorage(resetFrom(m, 1))

\* The three calls when localStorage.setItem raises an error (quota exceeded,
\* storage denied).  saveOverridesToStorage has no try/catch and neither have
\* its callers: the error leaves the call after applyBinding has changed the
\* registry, nothing is written and nothing is returned.  threw: an error
\* reached the caller; ok: the caller received true.
setBindingStoreFails(m, action, update) ==
  IF ~MapHas(m.actionToBinding, action) THEN [m |-> m, ok |-> FALSE, threw |-> FALSE]
  ELSE LET current == m.actionToBinding[action]
           next == [key |-> toLowerCase(update.key),
                    ctrl |-> Truthy(update, "ctrl"),
                    shift |-> Truthy(update, "shift"),
                    alt |-> Truthy(update, "alt"),
                    action |-> current.action]
       IN  IF hasConflict(m, next, action) THEN [m |-> m, ok |-> FALSE, threw |-> FALSE]
           ELSE [m |-> applyBinding(m, action, next), ok |-> FALSE, threw |-> TRUE]

resetBindingStoreFails(m, action) ==
  IF ~MapHas(m.defaultByAction, action) THEN [m |-> m, threw |-> FALSE]
  ELSE [m |-> applyBinding(m, action, m.defaultByAction[action]), threw |-> TRUE]

resetAllBindingsStoreFails(m) == [m |-> resetFrom(m, 1), threw |-> TRUE]

\* The lookup key the keydown handler builds from an event: the pressed
\* modifiers in the order ctrl, shift, alt, joined by '+', then '-', then
\* event.key lowercased.
eventKey(event) ==
  LET modifiers == (IF event.ctrlKey THEN << "ctrl" >> ELSE << >>)
                     \o (IF event.shiftKey THEN << "shift" >> ELSE << >>)
                     \o (IF event.altKey THEN << "alt" >> ELSE << >>)
  IN  Join(modifiers, "+") \o "-" \o toLowerCase(event.key)

\* The test of the keydown handler for a text-editing target.
isInputElement(target) ==
  \/ target.tagName = "INPUT"
  \/ target.tagName = "TEXTAREA"
  \/ target.contentEditable = "true"

\* The listeners whose call raises an error.
ThrowingListeners == {"LThrows"}

RECURSIVE runListenersFrom(_, _)
\* The forEach of executeAction from index i on: each listener is called
\* inside its own try/catch, an error is logged with console.error and the
\* loop goes on.  invoked: the listeners called, in order; logged: those
\* whose error was logged; threw: whether an error left the loop.
runListenersFrom(arr, i) ==
  IF i > Len(arr) THEN [invoked |-> << >>, logged |-> << >>, threw |-> FALSE]
  ELSE LET rest == runListenersFrom(arr, i + 1)
       IN  [invoked |-> << arr[i] >> \o rest.invoked,
            logged |-> (IF arr[i] \in ThrowingListeners THEN << arr[i] >> ELSE << >>)
                         \o rest.logged,
            threw |-> rest.threw]

\* The forEach of executeAction without its try/catch: the first error ends
\* the loop and leaves executeAction.
runListeners_noCatch(arr) ==
  LET throwers == {k \in 1..Len(arr) : arr[k] \in ThrowingListeners}
  IN  IF throwers = {}
      THEN [invoked |-> arr, logged |-> << >>, threw |-> FALSE]
      ELSE LET first == CHOOSE k \in throwers : \A j \in throwers : k <= j
           IN  [invoked |-> SubSeq(arr, 1, first), logged |-> << >>, threw |-> TRUE]

\* actionListeners.forEach(...) of executeAction.
runListeners(arr) == runListenersFrom(arr, 1)

\* executeAction that stops after the first listener.
executeAction_firstOnly(ls, action) ==
  IF MapHas(ls, action) /\ Len(ls[action]) > 0 THEN << ls[action][1] >> ELSE << >>

\* executeAction: the listeners of the action, called in array order.
executeAction(ls, action) ==
  IF MapHas(ls, action) THEN runListeners(ls[action]).invoked ELSE << >>

\* Whether an error of a listener leaves executeAction.
executeActionThrows(ls, action) ==
  MapHas(ls, action) /\ runListeners(ls[action]).threw

\* The keydown handler with the isEnabled test left out.
handleKeyDown_ignoresEnabled(bs, ls, enabled, event) ==
  LET untouched == [defaultPrevented |-> FALSE, invoked |-> << >>, threw |-> FALSE]
      key == eventKey(event)
  IN  IF ~MapHas(bs, key) THEN untouched
      ELSE LET binding == bs[key]
           IN  IF isInputElement(event.target) /\ binding.action \notin globalShortcuts
               THEN untouched
               ELSE [defaultPrevented |-> TRUE,
                     invoked |-> executeAction(ls, binding.action),
                     threw |-> executeActionThrows(ls, binding.action)]

\* The keydown handler calling preventDefault before it looks the combo up.
handleKeyDown_preventsFirst(bs, ls, enabled, event) ==
  LET key == eventKey(event)
  IN  IF ~enabled THEN [defaultPrevented |-> FALSE, invoked |-> << >>, threw |-> FALSE]
      ELSE IF ~MapHas(bs, key)
           THEN [defaultPrevented |-> TRUE, invoked |-> << >>, threw |-> FALSE]
      ELSE LET binding == bs[key]
           IN  IF isInputElement(event.target) /\ binding.action \notin globalShortcuts
               THEN [defaultPrevented |-> FALSE, invoked |-> << >>, threw |-> FALSE]
               ELSE [defaultPrevented |-> TRUE,
                     invoked |-> executeAction(ls, binding.action),
                     threw |-> executeActionThrows(ls, binding.action)]

\* The keydown handler with the scoping decided by the combo: in a text
\* surface the combos that the allow-listed actions have by default pass.
handleKeyDown_scopesByCombo(bs, ls, enabled, event) ==
  LET untouched == [defaultPrevented |-> FALSE, invoked |-> << >>, threw |-> FALSE]
      key == eventKey(event)
  IN  IF ~enabled THEN untouched
      ELSE IF ~MapHas(bs, key) THEN untouched
      ELSE LET binding == bs[key]
           IN  IF /\ isInputElement(event.target)
                  /\ key \notin {"ctrl-s", "ctrl-t", "ctrl+shift-t", "ctrl-b", "ctrl-x"}
               THEN untouched
               ELSE [defaultPrevented |-> TRUE,
                     invoked |-> executeAction(ls, binding.action),
                     threw |-> executeActionThrows(ls, binding.action)]

\* The keydown handler: whether preventDefault/stopPropagation were called,
\* the listeners invoked, in order, and whether an error left the handler.
handleKeyDown(bs, ls, enabled, event) ==
  LET untouched == [defaultPrevented |-> FALSE, invoked |-> << >>, threw |-> FALSE]
      key == eventKey(event)
  IN  IF ~enabled THEN untouched
      ELSE IF ~MapHas(bs, key) THEN untouched
      ELSE LET binding == bs[key]
           IN  IF isInputElement(event.target) /\ binding.action \notin globalShortcuts
               THEN untouched
               ELSE [defaultPrevented |-> TRUE,
                     invoked |-> executeAction(ls, binding.action),
                     threw |-> executeActionThrows(ls, binding.action)]

\* on: the array of the action, created when missing, gets the listener pushed.
on(ls, action, listener) ==
  LET arr == IF MapHas(ls, action) THEN ls[action] ELSE << >>
  IN  MapSet(ls, action, Append(arr, listener))

\* Array.prototype.indexOf, 0 standing for -1.
indexOf(arr, x) ==
  IF \E i \in 1..Len(arr) : arr[i] = x
  THEN CHOOSE i \in 1..Len(arr) : arr[i] = x /\ \A j \in 1..(i - 1) : arr[j] # x
  ELSE 0

\* arr.splice(index, 1).
splice(arr, index) ==
  [i \in 1..(Len(arr) - 1) |-> IF i < index THEN arr[i] ELSE arr[i + 1]]

\* off that takes every occurrence of the listener out of the array.
off_removesAll(ls, action, listener) ==
  IF ~MapHas(ls, action) THEN ls
  ELSE LET Other(x) == x # listener
       IN  IF indexOf(ls[action], listener) > 0
           THEN MapSet(ls, action, SelectSeq(ls[action], Other))
           ELSE ls

\* off: the first occurrence of the listener leaves the array of the action.
off(ls, action, listener) ==
  IF ~MapHas(ls, action) THEN ls
  ELSE LET index == indexOf(ls[action], listener)
       IN  IF index > 0 THEN MapSet(ls, action, splice(ls[action], index)) ELSE ls

\* getBindings: Array.from(actionToBinding.values()), the bindings in the
\* iteration order of the action index.
getBindings(m) == [i \in 1..Len(m.order) |-> m.actionToBinding[m.order[i]]]

\* The names getBindingKeys shows for the modifiers, in the order it pushes them.
ModifierLabels == << [flag |-> "ctrl", label |-> "Ctrl"],
                     [flag |-> "shift", label |-> "Shift"],
                     [flag |-> "alt", label |-> "Alt"] >>

\* getBindingKeys reading the default of the action, not its current binding.
getBindingKeys_fromDefaults(m, action) ==
  IF ~MapHas(m.defaultByAction, action) THEN ""
  ELSE LET binding == m.defaultByAction[action]
           set == SelectSeq(ModifierLabels, LAMBDA x : Truthy(binding, x.flag))
           modifiers == [i \in 1..Len(set) |-> set[i].label]
       IN  IF Len(modifiers) > 0
           THEN Join(modifiers, "+") \o "+" \o toUpperCase(binding.key)
           ELSE toUpperCase(binding.key)

\* getBindingKeys: '' for an action the action index does not have; else
\* the modifiers that are set, as Ctrl, Shift, Alt in that order, joined by
\* '+', then '+' and the uppercased key, or the uppercased key alone.
getBindingKeys(m, action) ==
  IF ~MapHas(m.actionToBinding, action) THEN ""
  ELSE LET binding == m.actionToBinding[action]
           set == SelectSeq(ModifierLabels, LAMBDA x : Truthy(binding, x.flag))
           modifiers == [i \in 1..Len(set) |-> set[i].label]
       IN  IF Len(modifiers) > 0
           THEN Join(modifiers, "+") \o "+" \o toUpperCase(binding.key)
           ELSE toUpperCase(binding.key)

\* The capture handler without the return to Idle on success.
handleKeyCapture_staysArmed(m, editing, e) ==
  IF editing = "null"
  THEN [m |-> m, editingAction |-> editing, stopped |-> FALSE, alerted |-> FALSE]
  ELSE LET update == [key |-> toLowerCase(e.key), ctrl |-> e.ctrlKey,
                      shift |-> e.shiftKey, alt |-> e.altKey]
           r == setBinding(m, editing, update)
       IN  [m |-> r.m,
            editingAction |-> editing,
            stopped |-> TRUE,
            alerted |-> ~r.ok]

\* handleKeyCapture of the settings dialog, the capture-phase keydown
\* listener on document: nothing while no action is being edited; otherwise
\* the event is stopped and its combo goes to setBinding, whatever the key;
\* the edit ends when setBinding returns true and an alert is shown when it
\* returns false.
handleKeyCapture(m, editing, e) ==
  IF editing = "null"
  THEN [m |-> m, editingAction |-> editing, stopped |-> FALSE, alerted |-> FALSE]
  ELSE LET update == [key |-> toLowerCase(e.key), ctrl |-> e.ctrlKey,
                      shift |-> e.shiftKey, alt |-> e.altKey]
           r == setBinding(m, editing, update)
       IN  [m |-> r.m,
            editingAction |-> IF r.ok THEN "null" ELSE editing,
            stopped |-> TRUE,
            alerted |-> ~r.ok]

(***************************************************************************)
(* State                                                                   *)
(***************************************************************************)

VARIABLES
  bindings,         \* Map keyCombo -> binding (the combo index)
  actionToBinding,  \* Map action -> binding (the action index)
  defaultByAction,  \* Map action -> default binding
  insertionOrder,   \* the keys of actionToBinding in the order the Map iterates them
  storage,          \* localStorage item 'lychee-keybindings'
  listeners,        \* Map action -> array of listeners
  isEnabled,
  editingAction,    \* SettingsModal: the action being captured, "null" when idle
  overridden,       \* history: actions ever given a binding by load or setBinding
  last              \* the last call and what its caller observed

vars == << bindings, actionToBinding, defaultByAction, insertionOrder, storage, listeners,
           isEnabled, editingAction, overridden, last >>

\* The manager record the operators work on, read from the variables.
Manager ==
  [bindings |-> bindings, actionToBinding |-> actionToBinding,
   defaultByAction |-> defaultByAction, order |-> insertionOrder,
   storage |-> storage, applied |-> {}]

\* The variables after an operation left the manager as m.
Becomes(m) ==
  /\ bindings' = m.bindings
  /\ actionToBinding' = m.actionToBinding
  /\ defaultByAction' = m.defaultByAction
  /\ insertionOrder' = m.order
  /\ storage' = m.storage

\* State after construction over a localStorage holding raw.
Constructed(raw) ==
  LET m == Construct(raw)
  IN  /\ bindings = m.bindings
      /\ actionToBinding = m.actionToBinding
      /\ defaultByAction = m.defaultByAction
      /\ insertionOrder = m.order
      /\ storage = m.storage
      /\ overridden = m.applied
      /\ listeners = EmptyMap
      /\ isEnabled = TRUE
      /\ editingAction = "null"
      /\ last = [op |-> "constructor"]

(***************************************************************************)
(* Inputs                                                                  *)
(***************************************************************************)

\* Actions the calls of the model name; "NO_SUCH_ACTION" is not a known action.
RebindActions == {"CREATE_NOTE", "RETURN_TO_VIEW", "UNDO"}

\* Arguments of setBinding.
Updates ==
  { [key |-> "k", ctrl |-> TRUE, shift |-> FALSE, alt |-> FALSE],
    [key |-> "a", ctrl |-> TRUE, shift |-> FALSE, alt |-> FALSE],
    [key |-> "b", ctrl |-> TRUE, shift |-> FALSE, alt |-> FALSE],
    [key |-> "Z", ctrl |-> TRUE],
    [key |-> "k"] }

(***************************************************************************)
(* Operations of the registry                                              *)
(***************************************************************************)

\* The combo of a binding or of an update as section 3 of the design compares
\* combos: the lowercased key and the three flags, an absent flag being false.
ComboOf(b) ==
  [key |-> toLowerCase(b.key), ctrl |-> Truthy(b, "ctrl"),
   shift |-> Truthy(b, "shift"), alt |-> Truthy(b, "alt")]

\* The combo the action holds in the action index when the call is made
\* (what getBindingByAction returns to the caller beforehand).
HeldBy(action) ==
  IF MapHas(actionToBinding, action) THEN ComboOf(actionToBinding[action])
  ELSE [key |-> ""]

SetBinding(action, update) ==
  LET r == setBinding(Manager, action, update)
  IN  /\ Becomes(r.m)
      /\ overridden' = IF r.ok THEN overridden \cup {action} ELSE overridden
      /\ last' = [op |-> "setBinding", action |-> action, update |-> update,
                  before |-> HeldBy(action), ok |-> r.ok]
      /\ UNCHANGED << listeners, isEnabled, editingAction >>

ResetBinding(action) ==
  /\ Becomes(resetBinding(Manager, action))
  /\ last' = [op |-> "resetBinding", action |-> action, before |-> HeldBy(action)]
  /\ UNCHANGED << listeners, isEnabled, editingAction, overridden >>

ResetAllBindings ==
  /\ Becomes(resetAllBindings(Manager))
  /\ last' = [op |-> "resetAllBindings"]
  /\ UNCHANGED << listeners, isEnabled, editingAction, overridden >>

Rebind == \E action \in RebindActions, update \in Updates : SetBinding(action, update)

Reset == \E action \in RebindActions : ResetBinding(action)

\* First run: nothing persisted, the registry is the default table.
Init == Constructed(NoItem)

Next == Rebind \/ Reset \/ ResetAllBindings

Spec == Init /\ [][Next]_vars

\* The process ends and starts again: a fresh manager is constructed over
\* the record the last one left in localStorage.
Restart ==
  LET m == Construct(storage)
  IN  /\ Becomes(m)
      /\ overridden' = overridden \cup m.applied
      /\ listeners' = EmptyMap
      /\ isEnabled' = TRUE
      /\ editingAction' = "null"
      /\ last' = [op |-> "constructor"]

NextRestart == Next \/ Restart

SpecRestart == Init /\ [][NextRestart]_vars

(***************************************************************************)
(* Construction over a persisted record                                    *)
(***************************************************************************)

\* Longest persisted record of the model, in entries.
MaxOverrides == 2

\* Names and values of the entries of a persisted record, hand-edited ones
\* included: partial overrides, an uppercase key, null, an unknown action.
RecordNames == {"CREATE_NOTE", "UNDO", "NO_SUCH_ACTION"}

RecordValues ==
  { [key |-> "k"],
    [key |-> "z", ctrl |-> TRUE, shift |-> FALSE, alt |-> FALSE],
    [key |-> "K", ctrl |-> TRUE],
    [shift |-> TRUE],
    JsonNull }

\* The objects of at most MaxOverrides entries; the names of an object are distinct.
RecordEntries ==
  { e \in UNION { [1..n -> RecordNames \X RecordValues] : n \in 0..MaxOverrides } :
      \A i, j \in 1..Len(e) : i # j => e[i][1] # e[j][1] }

PersistedRecords == {NoItem, Unparsable} \cup { Json(e) : e \in RecordEntries }

InitLoad == \E raw \in PersistedRecords : Constructed(raw)

SpecLoad == InitLoad /\ [][Next]_vars

(***************************************************************************)
(* A store that rejects writes                                             *)
(***************************************************************************)

SetBindingStoreFails(action, update) ==
  LET r == setBindingStoreFails(Manager, action, update)
  IN  /\ Becomes(r.m)
      /\ overridden' = IF r.threw THEN overridden \cup {action} ELSE overridden
      /\ last' = [op |-> "setBinding", store |-> "fails", action |-> action,
                  update |-> update, before |-> HeldBy(action),
                  ok |-> r.ok, threw |-> r.threw]
      /\ UNCHANGED << listeners, isEnabled, editingAction >>

ResetBindingStoreFails(action) ==
  LET r == resetBindingStoreFails(Manager, action)
  IN  /\ Becomes(r.m)
      /\ last' = [op |-> "resetBinding", store |-> "fails", action |-> action,
                  before |-> HeldBy(action), threw |-> r.threw]
      /\ UNCHANGED << listeners, isEnabled, editingAction, overridden >>

ResetAllBindingsStoreFails ==
  LET r == resetAllBindingsStoreFails(Manager)
  IN  /\ Becomes(r.m)
      /\ last' = [op |-> "resetAllBindings", store |-> "fails", threw |-> r.threw]
      /\ UNCHANGED << listeners, isEnabled, editingAction, overridden >>

\* Arguments of setBinding for the runs with a failing store.
StoreFailUpdates ==
  { [key |-> "k", ctrl |-> TRUE, shift |-> FALSE, alt |-> FALSE],
    [key |-> "Z", ctrl |-> TRUE] }

RebindStored ==
  \E action \in {"CREATE_NOTE", "UNDO"}, update \in StoreFailUpdates :
    SetBinding(action, update)

RebindStoreFails ==
  \E action \in {"CREATE_NOTE", "UNDO"}, update \in StoreFailUpdates :
    SetBindingStoreFails(action, update)

ResetStoreFails == \E action \in {"CREATE_NOTE", "UNDO"} : ResetBindingStoreFails(action)

NextStoreFail ==
  \/ RebindStored
  \/ Reset
  \/ ResetAllBindings
  \/ RebindStoreFails
  \/ ResetStoreFails
  \/ ResetAllBindingsStoreFails

SpecStoreFail == Init /\ [][NextStoreFail]_vars

(***************************************************************************)
(* Dispatch                                                                *)
(***************************************************************************)

\* Longest listener array of the model.
MaxListeners == 2

ListenerIds == {"L1", "L2"}

ListenActions == {"UNDO", "OPEN_SETTINGS"}

Targets ==
  { [tagName |-> "DIV", contentEditable |-> "inherit"],
    [tagName |-> "INPUT", contentEditable |-> "inherit"],
    [tagName |-> "TEXTAREA", contentEditable |-> "inherit"],
    [tagName |-> "DIV", contentEditable |-> "true"] }

\* Key events: ctrl+a, ctrl+b, ctrl+z, ctrl+k and ctrl+shift+Z on every target.
Events ==
  { [key |-> k, ctrlKey |-> TRUE, shiftKey |-> FALSE, altKey |-> FALSE, target |-> t] :
      k \in {"a", "b", "z", "k"}, t \in Targets }
  \cup
  { [key |-> "Z", ctrlKey |-> TRUE, shiftKey |-> TRUE, altKey |-> FALSE, target |-> t] :
      t \in Targets }

On(action, listener) ==
  /\ MapHas(listeners, action) => Len(listeners[action]) < MaxListeners
  /\ listeners' = on(listeners, action, listener)
  /\ last' = [op |-> "on"]
  /\ UNCHANGED << bindings, actionToBinding, defaultByAction, insertionOrder, storage, isEnabled,
                  editingAction, overridden >>

Off(action, listener) ==
  /\ listeners' = off(listeners, action, listener)
  /\ last' = [op |-> "off", action |-> action, listener |-> listener]
  /\ UNCHANGED << bindings, actionToBinding, defaultByAction, insertionOrder, storage, isEnabled,
                  editingAction, overridden >>

SetEnabled(enabled) ==
  /\ isEnabled' = enabled
  /\ last' = [op |-> "setEnabled", enabled |-> enabled]
  /\ UNCHANGED << bindings, actionToBinding, defaultByAction, insertionOrder, storage, listeners,
                  editingAction, overridden >>

KeyDown(event) ==
  LET r == handleKeyDown(bindings, listeners, isEnabled, event)
  IN  /\ last' = [op |-> "keydown", event |-> event,
                  defaultPrevented |-> r.defaultPrevented, invoked |-> r.invoked,
                  threw |-> r.threw]
      /\ UNCHANGED << bindings, actionToBinding, defaultByAction, insertionOrder, storage,
                      listeners, isEnabled, editingAction, overridden >>

Subscribe == \E action \in ListenActions, listener \in ListenerIds : On(action, listener)

Unsubscribe == \E action \in ListenActions, listener \in ListenerIds : Off(action, listener)

Toggle == \E enabled \in BOOLEAN : SetEnabled(enabled)

Press == \E event \in Events : KeyDown(event)

RebindDispatched ==
  \E action \in {"UNDO", "OPEN_SETTINGS"},
     update \in { [key |-> "k", ctrl |-> TRUE, shift |-> FALSE, alt |-> FALSE],
                  [key |-> "z", ctrl |-> TRUE, shift |-> FALSE, alt |-> FALSE] } :
    SetBinding(action, update)

NextDispatch == Subscribe \/ Unsubscribe \/ Toggle \/ Press \/ RebindDispatched

SpecDispatch == Init /\ [][NextDispatch]_vars

(***************************************************************************)
(* Publish to listeners that raise errors                                  *)
(***************************************************************************)

PublishEvents ==
  { [key |-> k, ctrlKey |-> TRUE, shiftKey |-> FALSE, altKey |-> FALSE,
     target |-> [tagName |-> "DIV", contentEditable |-> "inherit"]] : k \in {"z", "b", "k"} }

SubscribeAny ==
  \E action \in ListenActions, listener \in ListenerIds \cup ThrowingListeners :
    On(action, listener)

UnsubscribeAny ==
  \E action \in ListenActions, listener \in ListenerIds \cup ThrowingListeners :
    Off(action, listener)

PressPublish == \E event \in PublishEvents : KeyDown(event)

NextPublish == SubscribeAny \/ UnsubscribeAny \/ PressPublish

SpecPublish == Init /\ [][NextPublish]_vars

(***************************************************************************)
(* Rebinding from the settings dialog                                      *)
(***************************************************************************)

\* The actions whose row is clicked.
CaptureActions == {"CREATE_NOTE", "UNDO"}

\* Key events while the dialog is mounted: Escape, ctrl+k (free), ctrl+b
\* (the default of OPEN_SETTINGS) and ctrl+z.
CaptureEvents ==
  { [key |-> "Escape", ctrlKey |-> FALSE, shiftKey |-> FALSE, altKey |-> FALSE,
     target |-> [tagName |-> "DIV", contentEditable |-> "inherit"]] }
  \cup
  { [key |-> k, ctrlKey |-> TRUE, shiftKey |-> FALSE, altKey |-> FALSE,
     target |-> [tagName |-> "DIV", contentEditable |-> "inherit"]] : k \in {"k", "b", "z"} }

\* startCapture: a click on the row of the action.
StartCapture(action) ==
  /\ editingAction' = action
  /\ last' = [op |-> "startCapture", action |-> action]
  /\ UNCHANGED << bindings, actionToBinding, defaultByAction, insertionOrder, storage, listeners,
                  isEnabled, overridden >>

\* A keydown with the listener of the dialog registered for the bubble phase:
\* the listener of the manager, registered first, dispatches the event before
\* the dialog sees it.
CaptureKeyDown_bubblePhase(event) ==
  LET c == handleKeyCapture(Manager, editingAction, event)
      r == handleKeyDown(bindings, listeners, isEnabled, event)
  IN  IF c.stopped
      THEN /\ Becomes(c.m)
           /\ editingAction' = c.editingAction
           /\ overridden' = IF c.alerted THEN overridden
                            ELSE overridden \cup {editingAction}
           /\ last' = [op |-> "capture", action |-> editingAction, event |-> event,
                       before |-> HeldBy(editingAction), ok |-> ~c.alerted,
                       alerted |-> c.alerted, defaultPrevented |-> TRUE,
                       invoked |-> r.invoked]
           /\ UNCHANGED << listeners, isEnabled >>
      ELSE KeyDown(event)

\* A keydown while the dialog is mounted: the capture-phase listener of the
\* dialog runs first; when it stops the event the listener of the manager
\* does not see it, otherwise the event is dispatched as usual.
CaptureKeyDown(event) ==
  LET c == handleKeyCapture(Manager, editingAction, event)
  IN  IF c.stopped
      THEN /\ Becomes(c.m)
           /\ editingAction' = c.editingAction
           /\ overridden' = IF c.alerted THEN overridden
                            ELSE overridden \cup {editingAction}
           /\ last' = [op |-> "capture", action |-> editingAction, event |-> event,
                       before |-> HeldBy(editingAction), ok |-> ~c.alerted,
                       alerted |-> c.alerted, defaultPrevented |-> TRUE,
                       invoked |-> << >>]
           /\ UNCHANGED << listeners, isEnabled >>
      ELSE KeyDown(event)

StartEditing == \E action \in CaptureActions : StartCapture(action)

PressCapture == \E event \in CaptureEvents : CaptureKeyDown(event)

\* The editor registering its undo handler.
SubscribeCapture == \E listener \in {"L1"} : On("UNDO", listener)

NextCapture == StartEditing \/ PressCapture \/ ResetAllBindings \/ SubscribeCapture

SpecCapture == Init /\ [][NextCapture]_vars

(***************************************************************************)
(* The encoding of combos                                                  *)
(***************************************************************************)

\* Keys given to getBindingKey: letters in both cases and keys that contain
\* the separators of the encoding.
EncodeKeys == {"a", "A", "-", "+", "shift+a", "-a"}

\* Bindings over EncodeKeys; each of ctrl, shift, alt is true, false or absent.
EncodeBindings ==
  { [key |-> k] @@ flags :
      k \in EncodeKeys,
      flags \in UNION { [S -> BOOLEAN] : S \in SUBSET {"ctrl", "shift", "alt"} } }

\* The registry of the first run with two bindings to encode at hand.
InitEncode ==
  \E first, second \in EncodeBindings :
    LET m == Construct(NoItem)
    IN  /\ bindings = m.bindings
        /\ actionToBinding = m.actionToBinding
        /\ defaultByAction = m.defaultByAction
        /\ insertionOrder = m.order
        /\ storage = m.storage
        /\ overridden = m.applied
        /\ listeners = EmptyMap
        /\ isEnabled = TRUE
        /\ editingAction = "null"
        /\ last = [op |-> "input", first |-> first, second |-> second]

\* getBindingKey called for the two bindings.
Encode ==
  /\ last.op = "input"
  /\ last' = [op |-> "getBindingKey", first |-> last.first, second |-> last.second,
              firstKey |-> getBindingKey(last.first),
              secondKey |-> getBindingKey(last.second)]
  /\ UNCHANGED << bindings, actionToBinding, defaultByAction, insertionOrder, storage, listeners,
                  isEnabled, editingAction, overridden >>

NextEncode == Encode

SpecEncode == InitEncode /\ [][NextEncode]_vars

(***************************************************************************)
(* A lifetime: load, rebinds, resets, key events, restarts                 *)
(***************************************************************************)

NextLifetime == RebindStored \/ Reset \/ ResetAllBindings \/ PressPublish \/ Restart

SpecLifetime == InitLoad /\ [][NextLifetime]_vars

(***************************************************************************)
(* Publish to listeners that unsubscribe while they run                    *)
(***************************************************************************)

\* Listeners that call off when they are invoked, and the listener each
\* takes out of the array of the action being published.
OffCalls == [LOffSelf |-> "LOffSelf", LOffOther |-> "L1"]

RECURSIVE forEachLive(_, _, _, _)
\* The forEach of executeAction over the array of the action as off leaves
\* it: forEach reads the length once, len, and at each index k up to it
\* calls the element found there now, skipping an index the array no longer
\* has; off splices the same array in place.  Gives the listeners invoked,
\* in order, and the listener arrays after the loop.
forEachLive(ls, action, k, len) ==
  IF k > len THEN [invoked |-> << >>, listeners |-> ls]
  ELSE IF k > Len(ls[action]) THEN forEachLive(ls, action, k + 1, len)
  ELSE LET listener == ls[action][k]
           after == IF listener \in DOMAIN OffCalls
                    THEN off(ls, action, OffCalls[listener])
                    ELSE ls
           rest == forEachLive(after, action, k + 1, len)
       IN  [invoked |-> << listener >> \o rest.invoked, listeners |-> rest.listeners]

\* executeAction with listeners that may call off.
executeActionLive(ls, action) ==
  IF MapHas(ls, action)
  THEN forEachLive(ls, action, 1, Len(ls[action]))
  ELSE [invoked |-> << >>, listeners |-> ls]

\* A keydown whose listeners may call off: the handler decides as
\* handleKeyDown does and the listener arrays are what the publish leaves.
KeyDownLive(event) ==
  LET r == handleKeyDown(bindings, listeners, isEnabled, event)
      x == IF r.defaultPrevented
           THEN executeActionLive(listeners, bindings[eventKey(event)].action)
           ELSE [invoked |-> << >>, listeners |-> listeners]
  IN  /\ listeners' = x.listeners
      /\ last' = [op |-> "keydown", event |-> event,
                  defaultPrevented |-> r.defaultPrevented, invoked |-> x.invoked,
                  threw |-> FALSE]
      /\ UNCHANGED << bindings, actionToBinding, defaultByAction, insertionOrder, storage,
                      isEnabled, editingAction, overridden >>

LiveListenerIds == {"L1", "LOffSelf", "LOffOther"}

SubscribeLive ==
  \E action \in ListenActions, listener \in LiveListenerIds : On(action, listener)

UnsubscribeLive ==
  \E action \in ListenActions, listener \in LiveListenerIds : Off(action, listener)

PressLive == \E event \in PublishEvents : KeyDownLive(event)

NextLive == SubscribeLive \/ UnsubscribeLive \/ PressLive

SpecLive == Init /\ [][NextLive]_vars

(***************************************************************************)
(* Identifiers that are not actions                                        *)
(***************************************************************************)

UnknownActions == {"NO_SUCH_ACTION"}

\* setBinding called with an identifier the default table does not have.
RebindUnknown ==
  \E action \in UnknownActions, update \in StoreFailUpdates : SetBinding(action, update)

NextUnknown == RebindStored \/ RebindUnknown \/ Reset \/ Restart

SpecUnknown == InitLoad /\ [][NextUnknown]_vars

(***************************************************************************)
(* Labels of the combos                                                    *)
(***************************************************************************)

LabelUpdates ==
  { [key |-> "k"],
    [key |-> "K", ctrl |-> TRUE, shift |-> FALSE, alt |-> FALSE],
    [key |-> "k", ctrl |-> TRUE, shift |-> TRUE, alt |-> TRUE],
    [key |-> "z", shift |-> TRUE, alt |-> TRUE] }

LabelActions == {"CREATE_NOTE", "UNDO", "REDO", "NO_SUCH_ACTION"}

GetBindingKeys(action) ==
  /\ last' = [op |-> "getBindingKeys", action |-> action,
              label |-> getBindingKeys(Manager, action)]
  /\ UNCHANGED << bindings, actionToBinding, defaultByAction, insertionOrder, storage,
                  listeners, isEnabled, editingAction, overridden >>

RebindLabelled ==
  \E action \in {"CREATE_NOTE", "UNDO"}, update \in LabelUpdates :
    SetBinding(action, update)

ResetLabelled == \E action \in {"CREATE_NOTE", "UNDO"} : ResetBinding(action)

Label == \E action \in LabelActions : GetBindingKeys(action)

NextLabel == RebindLabelled \/ ResetLabelled \/ ResetAllBindings \/ Label

SpecLabel == Init /\ [][NextLabel]_vars

(***************************************************************************)
(* Properties of the registry                                              *)
(***************************************************************************)

\* lookup(combo): the action the dispatcher finds for a key event with this
\* combo, "none" when the combo index has no entry for it.
LookupIn(bs, combo) ==
  LET key == eventKey([key |-> combo.key, ctrlKey |-> combo.ctrl,
                       shiftKey |-> combo.shift, altKey |-> combo.alt])
  IN  IF MapHas(bs, key) THEN bs[key].action ELSE "none"

Range(f) == {f[x] : x \in DOMAIN f}

Ctrl(k) == [key |-> k, ctrl |-> TRUE, shift |-> FALSE, alt |-> FALSE]

\* The combo of the action in the default table.
DefaultCombo(action) ==
  ComboOf(CHOOSE d \in Range(defaultKeybindings) : d.action = action)

\* C1 (I2, uniqueness): no two actions hold bindings with the same combo.
\* Violated: resetBinding and resetAllBindings apply the default without
\* asking hasConflict, so an action is reset onto a combo another holds.
I2_Uniqueness ==
  \A a, b \in DOMAIN actionToBinding :
    a # b => ComboOf(actionToBinding[a]) # ComboOf(actionToBinding[b])

\* C2 (I1, index consistency): the combo index and the action index hold
\* exactly the same bindings, and the combo of every action's binding looks
\* up to that action.
I1_IndexConsistency ==
  /\ Range(bindings) = Range(actionToBinding)
  /\ \A a \in DOMAIN actionToBinding :
        LookupIn(bindings, ComboOf(actionToBinding[a])) = a

\* C3: a setBinding of an action to a combo owned by a different action (the
\* entry of the combo in the combo index names another action, which is how
\* hasConflict reads ownership) returns false and leaves both indices and
\* the persisted record as they were.
C3_ConflictRejected ==
  [][ ( /\ last'.op = "setBinding"
        /\ LookupIn(bindings, ComboOf(last'.update)) \notin {"none", last'.action} )
      => ( /\ last'.ok = FALSE
           /\ UNCHANGED << bindings, actionToBinding, storage >> ) ]_vars

C3_Witness ==
  /\ last.op = "setBinding"
  /\ last.action = "RETURN_TO_VIEW"
  /\ ComboOf(last.update) = Ctrl("b")
  /\ LookupIn(bindings, Ctrl("b")) = "OPEN_SETTINGS"
  /\ ~last.ok

\* C4: a setBinding of a known action to a combo that no other action holds
\* returns true; afterwards the new combo looks up to the action and the
\* combo the action held before, when different, looks up to none.  Stated
\* for the states the program reaches from the defaults by its own calls
\* and restarts.
C4_RebindSucceeds ==
  [][ ( /\ last'.op = "setBinding"
        /\ last'.action \in DOMAIN actionToBinding
        /\ LookupIn(bindings, ComboOf(last'.update)) \in {"none", last'.action} )
      => ( /\ last'.ok = TRUE
           /\ LookupIn(bindings', ComboOf(last'.update)) = last'.action
           /\ ComboOf(actionToBinding'[last'.action]) = ComboOf(last'.update)
           /\ ComboOf(last'.update) # ComboOf(actionToBinding[last'.action])
                 => LookupIn(bindings', ComboOf(actionToBinding[last'.action])) = "none" ) ]_vars

C4_Witness ==
  /\ last.op = "setBinding"
  /\ last.action = "CREATE_NOTE"
  /\ last.before = Ctrl("a")
  /\ ComboOf(last.update) = Ctrl("k")
  /\ last.ok
  /\ LookupIn(bindings, Ctrl("k")) = "CREATE_NOTE"
  /\ LookupIn(bindings, Ctrl("a")) = "none"

\* Two registries have the same action index and the same combo index:
\* every action has the same combo and every combo looks up to the same action.
SameRegistry(m, n) ==
  /\ DOMAIN m.actionToBinding = DOMAIN n.actionToBinding
  /\ \A a \in DOMAIN m.actionToBinding :
        ComboOf(m.actionToBinding[a]) = ComboOf(n.actionToBinding[a])
  /\ DOMAIN m.bindings = DOMAIN n.bindings
  /\ \A k \in DOMAIN m.bindings :
        /\ m.bindings[k].action = n.bindings[k].action
        /\ ComboOf(m.bindings[k]) = ComboOf(n.bindings[k])

\* C5 (persistence round trip): saving the overrides of the registry and
\* constructing a fresh manager over the saved record gives a registry with
\* the same action index and the same combo index.
C5_RoundTrip ==
  SameRegistry(Construct(saveOverridesToStorage(Manager).storage), Manager)

\* The registry equals the default table in both indices.
EqualsDefaultTable ==
  /\ DOMAIN actionToBinding = KeyBindingAction
  /\ \A a \in KeyBindingAction :
        /\ ComboOf(actionToBinding[a]) = DefaultCombo(a)
        /\ LookupIn(bindings, DefaultCombo(a)) = a
  /\ Cardinality(DOMAIN bindings) = Cardinality(KeyBindingAction)

\* C6 (factory reset): after resetAllBindings the registry equals the
\* default table in both indices and the persisted record is empty.
C6_FactoryReset ==
  last.op = "resetAllBindings" =>
    EqualsDefaultTable /\ storage = Json(<< >>)

\* The persisted record has an override for the action.
HasOverride(st, action) ==
  st.kind = "json" /\ \E i \in 1..Len(st.entries) : st.entries[i][1] = action

\* C7: after resetBinding(action) the action holds its default combo, the
\* default combo looks up to the action, the combo held before looks up to
\* none when it differs from the default, and the persisted record has no
\* override for the action.  Stated for the states the program reaches from
\* the defaults by its own calls and restarts.
C7_ResetRestoresDefault ==
  [][ ( /\ last'.op = "resetBinding"
        /\ last'.action \in KeyBindingAction )
      => LET a == last'.action
             def == DefaultCombo(a)
             old == ComboOf(actionToBinding[a])
         IN  /\ ComboOf(actionToBinding'[a]) = def
             /\ LookupIn(bindings', def) = a
             /\ old # def => LookupIn(bindings', old) = "none"
             /\ ~HasOverride(storage', a) ]_vars

C7_Witness ==
  /\ last.op = "resetBinding"
  /\ last.action = "CREATE_NOTE"
  /\ last.before = Ctrl("k")
  /\ LookupIn(bindings, Ctrl("a")) = "CREATE_NOTE"
  /\ LookupIn(bindings, Ctrl("k")) = "none"
  /\ ~HasOverride(storage, "CREATE_NOTE")

\* C8 (I3, totality): the action index has exactly one binding for each of
\* the ten known actions, whatever record was loaded and whatever rebinds
\* and resets followed, and an action that was never overridden holds its
\* default binding.
C8_Totality ==
  /\ DOMAIN actionToBinding = KeyBindingAction
  /\ Cardinality(DOMAIN actionToBinding) = Len(defaultKeybindings)
  /\ \A a \in DOMAIN actionToBinding :
        /\ actionToBinding[a].action = a
        /\ a \notin overridden =>
              ComboOf(actionToBinding[a]) = DefaultCombo(a)

C8_Witness ==
  /\ last.op = "constructor"
  /\ storage.kind = "json"
  /\ Len(storage.entries) = 2
  /\ overridden = {"UNDO"}
  /\ ComboOf(actionToBinding["UNDO"]) = Ctrl("k")
  /\ ComboOf(actionToBinding["CREATE_NOTE"]) = Ctrl("a")

(***************************************************************************)
(* Properties of the dispatcher                                            *)
(***************************************************************************)

EventCombo(event) ==
  [key |-> event.key, ctrl |-> event.ctrlKey, shift |-> event.shiftKey,
   alt |-> event.altKey]

\* The listeners registered for an action, in registration order.
Registered(ls, action) == IF action \in DOMAIN ls THEN ls[action] ELSE << >>

\* The allow-list of section 4.5: spotlight search, tag search, theme
\* picker, settings, export.
AllowList ==
  { "OPEN_SPOTLIGHT_SEARCH", "OPEN_TAG_SEARCH", "OPEN_THEME_DROPDOWN",
    "OPEN_SETTINGS", "OPEN_EXPORT" }

\* C9 (scoping in a text-editing surface): for a key event on a text-editing
\* target whose combo is bound, with the dispatcher enabled, the event is
\* suppressed and the listeners of the action are invoked exactly when the
\* action is on the allow-list; for any other action, UNDO and REDO
\* included, no listener is invoked and the default is not suppressed.
C9_TextSurfaceScoping ==
  [][ ( /\ last'.op = "keydown"
        /\ isEnabled
        /\ isInputElement(last'.event.target)
        /\ LookupIn(bindings, EventCombo(last'.event)) # "none" )
      => LET a == LookupIn(bindings, EventCombo(last'.event))
         IN  IF a \in AllowList
             THEN /\ last'.defaultPrevented
                  /\ last'.invoked = Registered(listeners, a)
             ELSE /\ ~last'.defaultPrevented
                  /\ last'.invoked = << >> ]_vars

C9_Witness ==
  /\ last.op = "keydown"
  /\ isEnabled
  /\ last.event.target.tagName = "TEXTAREA"
  /\ EventCombo(last.event) = Ctrl("z")
  /\ LookupIn(bindings, Ctrl("z")) = "UNDO"
  /\ Registered(listeners, "UNDO") # << >>
  /\ last.invoked = << >>
  /\ ~last.defaultPrevented

\* C10 (dispatch outside a text-editing surface): for a key event on a
\* target that is not a text-editing surface whose combo is bound, with the
\* dispatcher enabled, the default is suppressed and the listeners invoked
\* are exactly the listeners registered for the bound action, each once, in
\* registration order.
C10_DispatchOutsideText ==
  [][ ( /\ last'.op = "keydown"
        /\ isEnabled
        /\ ~isInputElement(last'.event.target)
        /\ LookupIn(bindings, EventCombo(last'.event)) # "none" )
      => ( /\ last'.defaultPrevented
           /\ last'.invoked =
                 Registered(listeners, LookupIn(bindings, EventCombo(last'.event))) ) ]_vars

C10_Witness ==
  /\ last.op = "keydown"
  /\ isEnabled
  /\ ~isInputElement(last.event.target)
  /\ EventCombo(last.event) = Ctrl("z")
  /\ LookupIn(bindings, Ctrl("z")) = "UNDO"
  /\ Registered(listeners, "UNDO") = << "L2", "L1" >>
  /\ Registered(listeners, "OPEN_SETTINGS") = << "L1" >>
  /\ last.invoked = << "L2", "L1" >>
  /\ last.defaultPrevented

\* C11 (disabled dispatcher): while the dispatcher is disabled a key event
\* invokes no listener and does not suppress the default, whatever its combo
\* and target; setEnabled sets the flag to its argument and changes neither
\* index of the registry, nor the persisted record, nor the listener lists;
\* with the flag true again a bound combo outside a text-editing surface is
\* dispatched again.
C11_DisabledDispatcher ==
  [][ /\ ( last'.op = "keydown" /\ ~isEnabled )
          => ( ~last'.defaultPrevented /\ last'.invoked = << >> )
      /\ ( last'.op = "setEnabled" )
          => ( /\ isEnabled' = last'.enabled
               /\ UNCHANGED << bindings, actionToBinding, storage, listeners >> )
      /\ ( /\ last'.op = "keydown"
            /\ last.op = "setEnabled"
            /\ last.enabled
            /\ ~isInputElement(last'.event.target)
            /\ LookupIn(bindings, EventCombo(last'.event)) # "none" )
          => ( /\ last'.defaultPrevented
               /\ last'.invoked =
                     Registered(listeners, LookupIn(bindings, EventCombo(last'.event))) )
    ]_vars

C11_Witness ==
  /\ last.op = "keydown"
  /\ ~isEnabled
  /\ ~isInputElement(last.event.target)
  /\ EventCombo(last.event) = Ctrl("z")
  /\ LookupIn(bindings, Ctrl("z")) = "UNDO"
  /\ Registered(listeners, "UNDO") # << >>
  /\ last.invoked = << >>
  /\ ~last.defaultPrevented

\* C12 (unbound combo): a key event whose combo has no entry in the combo
\* index invokes no listener and does not suppress the default, in every
\* reachable state of the registry, a combo that an action held before it was
\* rebound away included.
C12_UnboundCombo ==
  [][ ( /\ last'.op = "keydown"
        /\ LookupIn(bindings, EventCombo(last'.event)) = "none" )
      => ( ~last'.defaultPrevented /\ last'.invoked = << >> ) ]_vars

C12_Witness ==
  /\ last.op = "keydown"
  /\ isEnabled
  /\ ~isInputElement(last.event.target)
  /\ EventCombo(last.event) = Ctrl("z")
  /\ LookupIn(bindings, Ctrl("z")) = "none"
  /\ ComboOf(actionToBinding["UNDO"]) = Ctrl("k")
  /\ Registered(listeners, "UNDO") # << >>
  /\ last.invoked = << >>
  /\ ~last.defaultPrevented

(***************************************************************************)
(* Properties of the persisted record                                      *)
(***************************************************************************)

\* The combo an override of the persisted record resolves to for an action:
\* the properties it gives, the default of the action for the others.
Resolve(action, ov) ==
  ComboOf([f \in ComboFields |->
             IF f \in DOMAIN ov THEN ov[f] ELSE DefaultCombo(action)[f]])

\* The entries the persisted record has for an action.
EntriesOf(st, action) == {i \in 1..Len(st.entries) : st.entries[i][1] = action}

\* C13 (minimal diff on save): after every successful setBinding and after
\* every resetBinding and resetAllBindings the persisted record has an entry
\* for exactly the actions whose current combo differs from their default,
\* one each, and each entry resolves to the current combo of its action; an
\* action rebound back to its default has no entry.
C13_MinimalDiff ==
  ( \/ last.op = "setBinding" /\ last.ok
    \/ last.op = "resetBinding"
    \/ last.op = "resetAllBindings" )
  => /\ storage.kind = "json"
     /\ \A action \in KeyBindingAction :
          IF ComboOf(actionToBinding[action]) # DefaultCombo(action)
          THEN /\ Cardinality(EntriesOf(storage, action)) = 1
               /\ \A i \in EntriesOf(storage, action) :
                    Resolve(action, storage.entries[i][2])
                      = ComboOf(actionToBinding[action])
          ELSE EntriesOf(storage, action) = {}
     /\ \A i \in 1..Len(storage.entries) : storage.entries[i][1] \in KeyBindingAction

\* UNDO was rebound and then rebound back to ctrl+z while CREATE_NOTE keeps
\* its override.
C13_Witness ==
  /\ last.op = "setBinding"
  /\ last.ok
  /\ last.action = "UNDO"
  /\ last.before # Ctrl("z")
  /\ ComboOf(actionToBinding["UNDO"]) = Ctrl("z")
  /\ ComboOf(actionToBinding["CREATE_NOTE"]) = Ctrl("k")
  /\ storage.kind = "json"
  /\ Len(storage.entries) = 1
  /\ storage.entries[1][1] = "CREATE_NOTE"

\* C14 (load with a missing or unparsable record): construction over a
\* store whose item is missing or is not parsable completes, and the registry
\* it leaves equals the default table in both indices; no override is applied.
C14_MissingRecordDefaults ==
  ( last.op = "constructor" /\ storage.kind \in {"none", "unparsable"} )
  => ( EqualsDefaultTable /\ overridden = {} )

C14_Witness ==
  /\ last.op = "constructor"
  /\ storage = Unparsable
  /\ EqualsDefaultTable
  /\ LookupIn(bindings, Ctrl("z")) = "UNDO"

\* C15 (load tie-break): when two overrides of the persisted record resolve
\* to the same combo, after the load the action of the later one owns the
\* combo and the earlier override is dropped: the earlier action does not
\* hold that combo in the registry.
C15_LoadTieBreak ==
  ( /\ last.op = "constructor"
    /\ storage.kind = "json"
    /\ \A k \in 1..Len(storage.entries) : storage.entries[k][2] # JsonNull )
  => \A i, j \in 1..Len(storage.entries) :
       LET earlier == storage.entries[i][1]
           later == storage.entries[j][1]
       IN  ( /\ i < j
             /\ earlier \in KeyBindingAction
             /\ later \in KeyBindingAction
             /\ Resolve(earlier, storage.entries[i][2])
                  = Resolve(later, storage.entries[j][2]) )
           => ( /\ LookupIn(bindings, Resolve(later, storage.entries[j][2])) = later
                /\ ComboOf(actionToBinding[earlier])
                     # Resolve(later, storage.entries[j][2]) )

\* C16 (invariants after load): after construction from any persisted
\* record both indices describe the same bijection (I1) and no two actions
\* hold the same combo (I2).
C16_LoadKeepsInvariants ==
  last.op = "constructor" => ( I1_IndexConsistency /\ I2_Uniqueness )

\* The last call was made while the store rejected writes.
StoreFailed(l) == "store" \in DOMAIN l /\ l.store = "fails"

\* C17 (store write failure): a write failure of the store during a rebind
\* or a reset is not propagated to the caller and does not roll back the
\* registry: the call returns what it returns over a working store and both
\* indices are what the call leaves over a working store.
C17_WriteFailureContained ==
  [][ StoreFailed(last') =>
        /\ ~last'.threw
        /\ last'.op = "setBinding" =>
              LET r == setBinding(Manager, last'.action, last'.update)
              IN  /\ last'.ok = r.ok
                  /\ bindings' = r.m.bindings
                  /\ actionToBinding' = r.m.actionToBinding
        /\ last'.op = "resetBinding" =>
              LET m == resetBinding(Manager, last'.action)
              IN  bindings' = m.bindings /\ actionToBinding' = m.actionToBinding
        /\ last'.op = "resetAllBindings" =>
              LET m == resetAllBindings(Manager)
              IN  bindings' = m.bindings /\ actionToBinding' = m.actionToBinding
    ]_vars

\* C18 (a listener that raises an error): when a key event publishes an
\* action some of whose listeners raise an error, every listener registered
\* for the action is still invoked, once, in registration order, the ones
\* after the failing listener included, and no error reaches the caller of
\* the dispatcher.
C18_ThrowingListenerIsolated ==
  [][ ( /\ last'.op = "keydown"
        /\ last'.defaultPrevented
        /\ \E i \in 1..Len(Registered(listeners,
                                        LookupIn(bindings, EventCombo(last'.event)))) :
              Registered(listeners, LookupIn(bindings, EventCombo(last'.event)))[i]
                \in ThrowingListeners )
      => ( /\ ~last'.threw
           /\ last'.invoked =
                 Registered(listeners, LookupIn(bindings, EventCombo(last'.event))) ) ]_vars

C18_Witness ==
  /\ last.op = "keydown"
  /\ EventCombo(last.event) = Ctrl("z")
  /\ Registered(listeners, "UNDO") = << "LThrows", "L1" >>
  /\ last.invoked = << "LThrows", "L1" >>
  /\ last.defaultPrevented
  /\ ~last.threw

\* The listeners of an array other than l, in their order.
Others(arr, l) == LET Other(x) == x # l IN SelectSeq(arr, Other)

\* C19 (off, as claimed): after off(action, listener) a publish of the action
\* does not invoke the listener, however often it was registered before; the
\* other listeners keep their relative order; off for a listener that is not
\* registered changes nothing.
C19_OffSilencesListener ==
  [][ last'.op = "off" =>
        LET arr == Registered(listeners, last'.action)
            published == executeAction(listeners', last'.action)
        IN  /\ \A i \in 1..Len(published) : published[i] # last'.listener
            /\ Others(published, last'.listener) = Others(arr, last'.listener)
            /\ (\A i \in 1..Len(arr) : arr[i] # last'.listener)
                  => listeners' = listeners ]_vars

\* C19 (off, amended): off(action, listener) takes the first registration of
\* the listener out of the array of the action and nothing else: a publish of
\* the action afterwards invokes the registrations that remain, in their
\* order, so a listener registered once is no longer invoked and a listener
\* registered n times is invoked n - 1 times; the arrays of the other actions
\* are unchanged; off for a listener that is not registered changes nothing.
C19_OffRemovesFirst ==
  [][ last'.op = "off" =>
        LET arr == Registered(listeners, last'.action)
            l == last'.listener
            published == executeAction(listeners', last'.action)
        IN  IF \E i \in 1..Len(arr) : arr[i] = l
            THEN /\ \E i \in 1..Len(arr) :
                      /\ arr[i] = l
                      /\ \A j \in 1..(i - 1) : arr[j] # l
                      /\ published = SubSeq(arr, 1, i - 1) \o SubSeq(arr, i + 1, Len(arr))
                 /\ \A b \in KeyBindingAction \ {last'.action} :
                      Registered(listeners', b) = Registered(listeners, b)
            ELSE listeners' = listeners ]_vars

\* off("UNDO", "L1") after "L1" was registered twice: one registration stays.
C19_Witness ==
  /\ last.op = "off"
  /\ last.action = "UNDO"
  /\ last.listener = "L1"
  /\ Registered(listeners, "UNDO") = << "L1" >>

(***************************************************************************)
(* Properties of the rebind capture                                        *)
(***************************************************************************)

\* C20 (capture cancelled by Escape): while an action is being captured, if
\* the next keydown is Escape the capture returns to idle and neither index
\* of the registry nor the persisted record changes; no action becomes bound
\* to Escape.
C20_EscapeCancelsCapture ==
  [][ ( /\ editingAction # "null"
        /\ last'.op = "capture"
        /\ last'.event.key = "Escape" )
      => ( /\ editingAction' = "null"
           /\ UNCHANGED << bindings, actionToBinding, storage >>
           /\ \A a \in KeyBindingAction : actionToBinding'[a].key # "escape" ) ]_vars

\* C21 (capture resolves within one event): while an action is being
\* captured, a key event whose combo is owned by another action leaves the
\* registry and the persisted record unchanged, signals the failure and
\* returns the capture to idle, so that the key event after it is not taken
\* as a rebind candidate.
C21_ConflictEndsCapture ==
  [][ ( /\ editingAction # "null"
        /\ last'.op = "capture"
        /\ LookupIn(bindings, EventCombo(last'.event)) \notin {"none", editingAction} )
      => ( /\ UNCHANGED << bindings, actionToBinding, storage >>
           /\ last'.alerted
           /\ editingAction' = "null" ) ]_vars

\* C22 (capture ahead of dispatch): while an action is being captured a
\* keydown is taken by the capture, its default is suppressed and no
\* listener of any action is invoked, even when its combo is bound; while no
\* action is being captured the dialog does nothing with a keydown and the
\* dispatcher handles it: a bound combo outside a text-editing surface is
\* suppressed and published to the listeners of its action, an unbound one is
\* left alone.
C22_CaptureAheadOfDispatch ==
  [][ ( last'.op \in {"capture", "keydown"} )
      => IF editingAction # "null"
         THEN /\ last'.op = "capture"
              /\ last'.defaultPrevented
              /\ last'.invoked = << >>
         ELSE /\ last'.op = "keydown"
              /\ UNCHANGED << bindings, actionToBinding, storage, editingAction >>
              /\ LET a == LookupIn(bindings, EventCombo(last'.event))
                 IN  IF a # "none" /\ isEnabled /\ ~isInputElement(last'.event.target)
                     THEN /\ last'.defaultPrevented
                          /\ last'.invoked = Registered(listeners, a)
                     ELSE a = "none" => ( ~last'.defaultPrevented /\ last'.invoked = << >> )
    ]_vars

\* ctrl+z, bound to UNDO with a listener registered, pressed while
\* CREATE_NOTE is being captured.
C22_Witness ==
  /\ last.op = "capture"
  /\ last.action = "CREATE_NOTE"
  /\ EventCombo(last.event) = Ctrl("z")
  /\ LookupIn(bindings, Ctrl("z")) = "UNDO"
  /\ Registered(listeners, "UNDO") # << >>
  /\ last.invoked = << >>
  /\ last.defaultPrevented

(***************************************************************************)
(* Properties of the conflict check and of the encoding                    *)
(***************************************************************************)

\* C23 (a failed rebind names the owner): the failure result of setBinding
\* identifies the action that owns the requested combo, that is, two rebinds
\* of an action that fail against different owners return different results.
C23_FailureNamesOwner ==
  \A action \in RebindActions, u1, u2 \in Updates :
     LET owner1 == LookupIn(bindings, ComboOf(u1))
         owner2 == LookupIn(bindings, ComboOf(u2))
     IN  ( /\ owner1 \notin {"none", action}
           /\ owner2 \notin {"none", action}
           /\ owner1 # owner2 )
         => setBinding(Manager, action, u1).ok # setBinding(Manager, action, u2).ok

\* The bindings hasConflict is asked about: ctrl+a, ctrl+k, ctrl+z, ctrl+b.
ConflictTests == { [key |-> k, ctrl |-> TRUE] : k \in {"a", "k", "z", "b"} }

\* C24 (hasConflict against the action index): in every reachable state
\* hasConflict(combo, exceptAction) is true exactly when some action other
\* than exceptAction holds the combo in the action index.
C24_ConflictAgreesWithActionIndex ==
  \A test \in ConflictTests, exceptAction \in KeyBindingAction :
     hasConflict(Manager, test, exceptAction)
       <=> \E other \in KeyBindingAction \ {exceptAction} :
              ComboOf(actionToBinding[other]) = ComboOf(test)

\* The binding with its key in upper case.
UpperCased(test) ==
  [test EXCEPT !.key = IF \E u \in DOMAIN UpperToLower : UpperToLower[u] = @
                       THEN CHOOSE u \in DOMAIN UpperToLower : UpperToLower[u] = @
                       ELSE @]

\* C25 (case-insensitive encoding): combos that differ only in the case of
\* the key encode to the same identifier on every path: hasConflict asked
\* with an uppercase key answers as with the lowercase key, and after the
\* load of a persisted record with one override the key event of the combo
\* the override resolves to looks up to the action of the override.
C25_CaseInsensitiveEncoding ==
  /\ \A test \in ConflictTests, exceptAction \in KeyBindingAction :
        hasConflict(Manager, UpperCased(test), exceptAction)
          = hasConflict(Manager, test, exceptAction)
  /\ ( /\ last.op = "constructor"
       /\ storage.kind = "json"
       /\ Len(storage.entries) = 1
       /\ storage.entries[1][1] \in KeyBindingAction
       /\ storage.entries[1][2] # JsonNull )
     => LookupIn(bindings, Resolve(storage.entries[1][1], storage.entries[1][2]))
          = storage.entries[1][1]

\* C26 (injective encoding): two bindings whose combos differ, in the
\* lowercased key or in one of the flags ctrl, shift, alt, an absent flag
\* counting as false, get different identifiers from getBindingKey, keys
\* that contain '+' or '-' included.
C26_EncodingInjective ==
  ( last.op = "getBindingKey" /\ ComboOf(last.first) # ComboOf(last.second) )
  => last.firstKey # last.secondKey

\* ctrl with the key "shift+a" against ctrl+shift with the key "a".
C26_Witness ==
  /\ last.op = "getBindingKey"
  /\ last.first = [key |-> "shift+a", ctrl |-> TRUE]
  /\ last.second = [key |-> "a", ctrl |-> TRUE, shift |-> TRUE, alt |-> FALSE]
  /\ last.firstKey = "ctrl-shift+a"
  /\ last.secondKey = "ctrl+shift-a"

(***************************************************************************)
(* Properties of the default table and of getBindings                      *)
(***************************************************************************)

\* C27 (getBindings): in every reachable state getBindings returns one
\* binding per known action, the current binding of the action, listed in
\* the order of the default table, whatever the order in which actions were
\* rebound or reset.
C27_GetBindingsInDefaultOrder ==
  LET bs == getBindings(Manager)
  IN  /\ Len(bs) = Len(defaultKeybindings)
      /\ \A i \in 1..Len(bs) :
            /\ bs[i].action = defaultKeybindings[i].action
            /\ bs[i] = actionToBinding[bs[i].action]

\* UNDO was rebound before CREATE_NOTE, then RETURN_TO_VIEW was reset.
C27_Witness ==
  /\ last.op = "resetBinding"
  /\ last.action = "RETURN_TO_VIEW"
  /\ {"CREATE_NOTE", "UNDO"} \subseteq overridden
  /\ ComboOf(getBindings(Manager)[1]) = Ctrl("k")
  /\ getBindings(Manager)[1].action = "CREATE_NOTE"
  /\ ComboOf(getBindings(Manager)[6]) # Ctrl("z")
  /\ getBindings(Manager)[6].action = "UNDO"

\* C28 (distinct defaults): the encoded combos of the actions of the default
\* table are pairwise distinct, and the registry built from the defaults
\* alone has ten entries in each index.
C28_DefaultsDistinct ==
  /\ \A i, j \in 1..Len(defaultKeybindings) :
        i # j => getBindingKey(defaultKeybindings[i]) # getBindingKey(defaultKeybindings[j])
  /\ ( last.op = "constructor" /\ storage = NoItem )
       => ( /\ Cardinality(DOMAIN bindings) = 10
            /\ Cardinality(DOMAIN actionToBinding) = 10 )

C28_Witness ==
  /\ last.op = "constructor"
  /\ storage = NoItem
  /\ Cardinality(DOMAIN bindings) = 10
  /\ bindings["ctrl+shift-z"].action = "REDO"
  /\ bindings["ctrl-z"].action = "UNDO"

\* C29 (the default table is read-only): no operation after construction
\* changes defaultByAction: after the load of overrides, setBinding,
\* resetBinding, resetAllBindings, a key event and a restart each action has
\* the default combo it had at the start, the one of the default table.
C29_DefaultsUnchanged ==
  [][ /\ defaultByAction' = defaultByAction
      /\ \A a \in KeyBindingAction :
            /\ a \in DOMAIN defaultByAction'
            /\ ComboOf(defaultByAction'[a]) = DefaultCombo(a) ]_vars

\* CREATE_NOTE was loaded with an override, rebound again and then reset.
C29_Witness ==
  /\ last.op = "resetBinding"
  /\ last.action = "CREATE_NOTE"
  /\ last.before # Ctrl("a")
  /\ "CREATE_NOTE" \in overridden
  /\ ComboOf(actionToBinding["CREATE_NOTE"]) = Ctrl("a")
  /\ defaultByAction["CREATE_NOTE"] = defaultKeybindings[1]

\* C30 (a rebind takes effect before the next key event): when the key
\* event that follows a successful rebind of an action from combo c1 to
\* combo c2 arrives with the dispatcher enabled and the focus outside a
\* text-editing surface, then with combo c1 (other than c2) it invokes no
\* listener of the action, and with combo c2 it is suppressed and invokes
\* the listeners of the action, in order.
C30_RebindBeforeNextEvent ==
  [][ ( /\ last.op = "setBinding"
        /\ last.ok
        /\ last'.op = "keydown"
        /\ isEnabled
        /\ ~isInputElement(last'.event.target) )
      => LET c1 == last.before
             c2 == ComboOf(last.update)
             pressed == ComboOf(EventCombo(last'.event))
         IN  /\ ( pressed = c1 /\ c1 # c2 ) => last'.invoked = << >>
             /\ ( pressed = c2 )
                   => ( /\ last'.defaultPrevented
                        /\ last'.invoked = Registered(listeners, last.action) ) ]_vars

\* ctrl+k pressed once UNDO lives on ctrl+k.
C30_Witness ==
  /\ last.op = "keydown"
  /\ isEnabled
  /\ ~isInputElement(last.event.target)
  /\ EventCombo(last.event) = Ctrl("k")
  /\ "UNDO" \in overridden
  /\ ComboOf(actionToBinding["UNDO"]) = Ctrl("k")
  /\ Registered(listeners, "UNDO") # << >>
  /\ last.invoked = Registered(listeners, "UNDO")
  /\ last.defaultPrevented

(***************************************************************************)
(* Frame of a rebind, malformed records                                    *)
(***************************************************************************)

\* C31 (a rebind or reset changes one action only): a successful setBinding
\* and a resetBinding of an action leave every other action b as it was: the
\* binding b has in the action index and the action the combo of b looks up
\* to are the same before and after the call.
C31_OtherActionsUntouched ==
  [][ ( \/ last'.op = "setBinding" /\ last'.ok
        \/ last'.op = "resetBinding" )
      => \A b \in KeyBindingAction \ {last'.action} :
           /\ actionToBinding'[b] = actionToBinding[b]
           /\ LookupIn(bindings', ComboOf(actionToBinding[b]))
                = LookupIn(bindings, ComboOf(actionToBinding[b])) ]_vars

\* C32 (malformed record): when the processing of the persisted record fails
\* at an entry, an entry of a known action whose value is null, the record
\* counts as no overrides at all: the registry equals the default table and
\* no entry of the record has been applied.
C32_MalformedRecordIgnored ==
  ( /\ last.op = "constructor"
    /\ storage.kind = "json"
    /\ \E i \in 1..Len(storage.entries) :
          /\ storage.entries[i][1] \in KeyBindingAction
          /\ storage.entries[i][2] = JsonNull )
  => ( EqualsDefaultTable /\ overridden = {} )

(***************************************************************************)
(* A capture that succeeds                                                 *)
(***************************************************************************)

\* The combo a key event rebinds to: the key is lowercased by setBinding.
CapturedCombo(event) ==
  [key |-> toLowerCase(event.key), ctrl |-> event.ctrlKey,
   shift |-> event.shiftKey, alt |-> event.altKey]

\* The persisted record reflects the combo of the action: one entry that
\* resolves to it, or no entry when the combo is the default of the action.
RecordReflects(st, action, combo) ==
  /\ st.kind = "json"
  /\ IF combo = DefaultCombo(action)
     THEN EntriesOf(st, action) = {}
     ELSE /\ Cardinality(EntriesOf(st, action)) = 1
          /\ \A i \in EntriesOf(st, action) :
                Resolve(action, st.entries[i][2]) = combo

\* C33: a key event that resolves a capture with a combo no other action
\* holds rebinds the captured action to that combo in both indices, the
\* persisted record reflects the combo, and the capture is Idle again; the
\* key event after a successful capture is dispatched by the manager, not
\* captured.
C33_CaptureSucceeds ==
  [][ /\ ( /\ editingAction # "null"
           /\ last'.op = "capture"
           /\ \A b \in KeyBindingAction \ {editingAction} :
                 ComboOf(actionToBinding[b]) # CapturedCombo(last'.event) )
         => ( /\ last'.ok
              /\ ~last'.alerted
              /\ ComboOf(actionToBinding'[editingAction])
                    = CapturedCombo(last'.event)
              /\ LookupIn(bindings', CapturedCombo(last'.event)) = editingAction
              /\ RecordReflects(storage', editingAction,
                                CapturedCombo(last'.event))
              /\ editingAction' = "null" )
      /\ ( /\ last.op = "capture"
           /\ last.ok
           /\ last'.op \in {"capture", "keydown"} )
         => ( /\ last'.op = "keydown"
              /\ UNCHANGED << bindings, actionToBinding, storage >> ) ]_vars

C33_Witness ==
  /\ last.op = "capture"
  /\ last.action = "UNDO"
  /\ EventCombo(last.event) = Ctrl("k")
  /\ last.before = Ctrl("z")
  /\ last.ok
  /\ editingAction = "null"
  /\ ComboOf(actionToBinding["UNDO"]) = Ctrl("k")
  /\ LookupIn(bindings, Ctrl("k")) = "UNDO"
  /\ HasOverride(storage, "UNDO")

(***************************************************************************)
(* The fields of a persisted override                                      *)
(***************************************************************************)

ModifierFields == {"ctrl", "shift", "alt"}

\* C34: a persisted override holds only the combo fields that differ from
\* the default of the action: after a successful setBinding that changes
\* only the key of the action, its stored entry has the key and none of
\* the unchanged modifier flags.
C34_OverrideOnlyDifferingFields ==
  ( /\ last.op = "setBinding"
    /\ last.ok
    /\ ComboOf(actionToBinding[last.action]).key # DefaultCombo(last.action).key )
  => \A i \in EntriesOf(storage, last.action) :
        /\ "key" \in DOMAIN storage.entries[i][2]
        /\ \A f \in ModifierFields :
              ComboOf(actionToBinding[last.action])[f] = DefaultCombo(last.action)[f]
                => f \notin DOMAIN storage.entries[i][2]

\* What saveOverridesToStorage writes instead: after a successful setBinding
\* that leaves the action on a combo other than its default, the stored entry of the action
\* holds all four combo fields, the key and the three modifier flags as
\* booleans, each equal to the field of the combo the action now holds,
\* whether or not the field differs from the default.
OverrideHoldsWholeCombo ==
  ( /\ last.op = "setBinding"
    /\ last.ok
    /\ ComboOf(actionToBinding[last.action]) # DefaultCombo(last.action) )
  => /\ storage.kind = "json"
     /\ Cardinality(EntriesOf(storage, last.action)) = 1
     /\ \A i \in EntriesOf(storage, last.action) :
           /\ DOMAIN storage.entries[i][2] = ComboFields
           /\ \A f \in ComboFields :
                 storage.entries[i][2][f] = ComboOf(actionToBinding[last.action])[f]

\* CREATE_NOTE moved from ctrl+a to ctrl+k: only the key changed, and the
\* entry carries ctrl, which equals the default.
OverrideHoldsWholeCombo_Reached ==
  /\ last.op = "setBinding"
  /\ last.ok
  /\ last.action = "CREATE_NOTE"
  /\ ComboOf(actionToBinding["CREATE_NOTE"]) = Ctrl("k")
  /\ DefaultCombo("CREATE_NOTE") = Ctrl("a")
  /\ \E i \in EntriesOf(storage, "CREATE_NOTE") :
        /\ DOMAIN storage.entries[i][2] = ComboFields
        /\ storage.entries[i][2].ctrl = TRUE
        /\ storage.entries[i][2].shift = FALSE

(***************************************************************************)
(* Unsubscribing during a publish                                          *)
(***************************************************************************)

\* The action a key event publishes.
PublishedBy(event) == LookupIn(bindings, EventCombo(event))

InSeq(x, arr) == \E i \in 1..Len(arr) : arr[i] = x

\* C35: a publish delivers to every listener that was registered for the
\* action when the publish began, even when a listener calls off during
\* it; in particular a listener that is still registered after the publish
\* has been invoked by it.
C35_PublishDeliversToAll ==
  [][ ( /\ last'.op = "keydown"
        /\ last'.defaultPrevented )
      => /\ \A i \in 1..Len(Registered(listeners, PublishedBy(last'.event))) :
              InSeq(Registered(listeners, PublishedBy(last'.event))[i], last'.invoked)
         /\ \A i \in 1..Len(Registered(listeners', PublishedBy(last'.event))) :
              InSeq(Registered(listeners', PublishedBy(last'.event))[i], last'.invoked)
    ]_vars

(***************************************************************************)
(* Scoping after rebinds                                                   *)
(***************************************************************************)

\* The actions that hold the combo of a key event in the action index.
HoldersOf(event) ==
  {a \in KeyBindingAction : ComboOf(actionToBinding[a]) = CapturedCombo(event)}

\* C36: the scoping policy follows the action, not the combo: after any
\* rebinds, a key event in a text-editing surface, with the dispatcher
\* enabled, is suppressed and published exactly when the action that holds
\* its combo now is on the allow-list, and the listeners invoked are those
\* of that action; a combo that no action holds any more does nothing.
C36_ScopingFollowsAction ==
  [][ ( /\ last'.op = "keydown"
        /\ isEnabled
        /\ isInputElement(last'.event.target) )
      => /\ last'.defaultPrevented <=> (HoldersOf(last'.event) \cap AllowList # {})
         /\ \A a \in HoldersOf(last'.event) :
              last'.invoked = IF a \in AllowList THEN Registered(listeners, a)
                              ELSE << >>
         /\ HoldersOf(last'.event) = {} => last'.invoked = << >> ]_vars

\* ctrl+z, formerly of UNDO, belongs to OPEN_SETTINGS and fires in a text
\* area, while ctrl+b, formerly of OPEN_SETTINGS, is held by no action.
C36_Witness ==
  /\ last.op = "keydown"
  /\ isEnabled
  /\ last.event.target.tagName = "TEXTAREA"
  /\ EventCombo(last.event) = Ctrl("z")
  /\ ComboOf(actionToBinding["OPEN_SETTINGS"]) = Ctrl("z")
  /\ ComboOf(actionToBinding["UNDO"]) = Ctrl("k")
  /\ LookupIn(bindings, Ctrl("b")) = "none"
  /\ Registered(listeners, "OPEN_SETTINGS") = << "L1" >>
  /\ last.invoked = << "L1" >>
  /\ last.defaultPrevented

(***************************************************************************)
(* Rebinding an action to its own combo                                    *)
(***************************************************************************)

\* The overrides of a persisted record; a missing item has none.
OverridesIn(st) == IF st.kind = "json" THEN st.entries ELSE << >>

\* C37: setBinding of an action to the combo it already holds returns true
\* and leaves the action index, the combo index and the overrides of the
\* persisted record as they were: the binding of the action itself is not
\* a conflict.
C37_RebindToOwnCombo ==
  [][ ( /\ last'.op = "setBinding"
        /\ last'.action \in KeyBindingAction
        /\ ComboOf(last'.update) = ComboOf(actionToBinding[last'.action]) )
      => ( /\ last'.ok
           /\ SameRegistry([bindings |-> bindings', actionToBinding |-> actionToBinding'],
                           [bindings |-> bindings, actionToBinding |-> actionToBinding])
           /\ OverridesIn(storage') = OverridesIn(storage) ) ]_vars

(***************************************************************************)
(* Unknown actions                                                         *)
(***************************************************************************)

\* C38: an override stored under an identifier that is not a known action
\* is ignored by the load, and setBinding for such an identifier returns
\* false: in both cases no binding is added, and the actions of the two
\* indices stay those of the default table.
C38_UnknownActionIgnored ==
  /\ DOMAIN actionToBinding = KeyBindingAction
  /\ \A k \in DOMAIN bindings : bindings[k].action \in KeyBindingAction
  /\ Cardinality(DOMAIN bindings) <= Cardinality(KeyBindingAction)
  /\ overridden \subseteq KeyBindingAction
  /\ ( last.op = "setBinding" /\ last.action \notin KeyBindingAction ) => ~last.ok

\* The record loaded at construction has an entry for NO_SUCH_ACTION, and
\* setBinding('NO_SUCH_ACTION', ctrl+k) has just been refused.
C38_Witness ==
  /\ HasOverride(storage, "NO_SUCH_ACTION")
  /\ last.op = "setBinding"
  /\ last.action = "NO_SUCH_ACTION"
  /\ ComboOf(last.update) = Ctrl("k")
  /\ ~last.ok
  /\ LookupIn(bindings, Ctrl("k")) = "none"
  /\ DOMAIN actionToBinding = KeyBindingAction

(***************************************************************************)
(* The label of a combo                                                    *)
(***************************************************************************)

\* The label of a combo, written out: Ctrl, Shift and Alt, each followed by
\* '+' when set, then the key in upper case.
LabelOf(combo) ==
  (IF combo.ctrl THEN "Ctrl+" ELSE "")
    \o (IF combo.shift THEN "Shift+" ELSE "")
    \o (IF combo.alt THEN "Alt+" ELSE "")
    \o toUpperCase(combo.key)

\* C39: getBindingKeys of an action gives the label of the combo the action
\* holds in the action index at the time of the call: the set modifiers in
\* the order Ctrl, Shift, Alt joined by '+', then the uppercased key, the
\* key alone when no modifier is set; a rebind or a reset shows in the next
\* call.
C39_LabelOfCurrentCombo ==
  ( last.op = "getBindingKeys" /\ last.action \in KeyBindingAction )
  => last.label = LabelOf(ComboOf(actionToBinding[last.action]))

\* CREATE_NOTE, by default on ctrl+a, was rebound to ctrl+shift+alt+k.
C39_Witness ==
  /\ last.op = "getBindingKeys"
  /\ last.action = "CREATE_NOTE"
  /\ ComboOf(actionToBinding["CREATE_NOTE"])
       = [key |-> "k", ctrl |-> TRUE, shift |-> TRUE, alt |-> TRUE]
  /\ last.label = "Ctrl+Shift+Alt+K"

====
